---- MODULE Spec2Model ----
(***************************************************************************)
(* Model of the configurik format-preserving parser (src/parser.py) and of *)
(* its verification utility (src/test.py).                                 *)
(*                                                                         *)
(* A source text is a sequence of one-character strings.  The terminals    *)
(* of the grammar are matched character by character, the way the regular  *)
(* expressions of the grammar match them; the rules of the grammar are     *)
(* operators that return every derivation the grammar allows from a given  *)
(* position (the parser is a general Earley parser, so nothing is assumed  *)
(* about which derivation wins); the transformer callbacks and the restore *)
(* methods are recursive operators over the resulting trees.               *)
(***************************************************************************)
EXTENDS Integers, Sequences, FiniteSets, TLC

VARIABLES input_data, pc, forest, errpos, ast, restored, exit_code

vars == <<input_data, pc, forest, errpos, ast, restored, exit_code>>

----------------------------------------------------------------------------
(* Characters *)

LETTER == {"a", "b", "c", "d", "e", "f", "g", "h", "i", "j", "k", "l", "m",
           "n", "o", "p", "q", "r", "s", "t", "u", "v", "w", "x", "y", "z",
           "A", "B", "C", "D", "E", "F", "G", "H", "I", "J", "K", "L", "M",
           "N", "O", "P", "Q", "R", "S", "T", "U", "V", "W", "X", "Y", "Z"}

DIGIT == {"0", "1", "2", "3", "4", "5", "6", "7", "8", "9"}

WS_CHARS == {" ", "\t", "\r", "\n"}

STRUCTURAL == {"{", "}", "[", "]", ",", ":", "\""}

Max(a, b) == IF a >= b THEN a ELSE b

RECURSIVE ScanWhile(_, _, _)
(* The first position at or after i whose character is not in S. *)
ScanWhile(text, i, S) ==
    IF i <= Len(text) /\ text[i] \in S THEN ScanWhile(text, i + 1, S) ELSE i

RECURSIVE ScanUntilNewline(_, _)
ScanUntilNewline(text, i) ==
    IF i <= Len(text) /\ text[i] # "\n" THEN ScanUntilNewline(text, i + 1) ELSE i

At(text, i) == IF i >= 1 /\ i <= Len(text) THEN text[i] ELSE "EOF"

----------------------------------------------------------------------------
(* Terminals.  Each Match operator returns the position just after the     *)
(* match of the terminal that starts at position i, or 0 when the terminal *)
(* does not match there.                                                   *)

(* SPACING whose character class also holds the comma. *)
MatchSPACING_with_comma(text, i) ==
    LET e == ScanWhile(text, i, WS_CHARS \cup {","}) IN IF e > i THEN e ELSE 0

MatchSPACING(text, i) ==
    LET e == ScanWhile(text, i, WS_CHARS) IN IF e > i THEN e ELSE 0

RECURSIVE FindCommentClose(_, _)
(* Position just after the first "*/" at or after j, or 0. *)
FindCommentClose(text, j) ==
    IF j + 1 > Len(text) THEN 0
    ELSE IF text[j] = "*" /\ text[j + 1] = "/" THEN j + 2
    ELSE FindCommentClose(text, j + 1)

MatchML_COMMENT(text, i) ==
    IF At(text, i) = "/" /\ At(text, i + 1) = "*"
    THEN FindCommentClose(text, i + 2)
    ELSE 0

MatchSL_COMMENT(text, i) ==
    IF At(text, i) = "/" /\ At(text, i + 1) = "/"
    THEN ScanUntilNewline(text, i + 2)
    ELSE 0

(* CNAME without digits after the first character. *)
MatchCNAME_letters_only(text, i) ==
    IF At(text, i) \in LETTER \cup {"_"}
    THEN ScanWhile(text, i + 1, LETTER \cup {"_"})
    ELSE 0

MatchCNAME(text, i) ==
    IF At(text, i) \in LETTER \cup {"_"}
    THEN ScanWhile(text, i + 1, LETTER \cup DIGIT \cup {"_"})
    ELSE 0

RECURSIVE BackslashesBefore(_, _, _)
(* Number of consecutive backslashes that end at position j, not going     *)
(* below position lo.                                                      *)
BackslashesBefore(text, j, lo) ==
    IF j >= lo /\ text[j] = "\\" THEN 1 + BackslashesBefore(text, j - 1, lo) ELSE 0

RECURSIVE FindStringClose(_, _, _)
(* Position just after the first closing quote at or after j that is       *)
(* preceded by an even number of backslashes; a newline ends the search.   *)
FindStringClose(text, j, lo) ==
    IF j > Len(text) THEN 0
    ELSE IF text[j] = "\"" /\ BackslashesBefore(text, j - 1, lo) % 2 = 0 THEN j + 1
    ELSE IF text[j] = "\n" THEN 0
    ELSE FindStringClose(text, j + 1, lo)

MatchESCAPED_STRING(text, i) ==
    IF At(text, i) = "\"" THEN FindStringClose(text, i + 1, i + 1) ELSE 0

(* The exponent part of a number that starts at position i, or i itself    *)
(* when there is none.                                                     *)
SkipExp(text, i) ==
    IF At(text, i) \in {"e", "E"}
    THEN LET s == IF At(text, i + 1) \in {"+", "-"} THEN i + 2 ELSE i + 1
             d == ScanWhile(text, s, DIGIT)
         IN  IF d > s THEN d ELSE i
    ELSE i

MatchSIGNED_NUMBER(text, i) ==
    LET p  == IF At(text, i) \in {"+", "-"} THEN i + 1 ELSE i
        d1 == ScanWhile(text, p, DIGIT)
    IN  IF d1 > p
        THEN IF At(text, d1) = "."
             THEN SkipExp(text, ScanWhile(text, d1 + 1, DIGIT))
             ELSE SkipExp(text, d1)
        ELSE IF At(text, p) = "."
             THEN LET d2 == ScanWhile(text, p + 1, DIGIT)
                  IN  IF d2 > p + 1 THEN SkipExp(text, d2) ELSE 0
             ELSE 0

MatchLiteral(text, i, c) == IF At(text, i) = c THEN i + 1 ELSE 0

Match(name, text, i) ==
    CASE name = "SPACING"        -> MatchSPACING(text, i)
      [] name = "ML_COMMENT"     -> MatchML_COMMENT(text, i)
      [] name = "SL_COMMENT"     -> MatchSL_COMMENT(text, i)
      [] name = "CNAME"          -> MatchCNAME(text, i)
      [] name = "ESCAPED_STRING" -> MatchESCAPED_STRING(text, i)
      [] name = "SIGNED_NUMBER"  -> MatchSIGNED_NUMBER(text, i)
      [] OTHER                   -> MatchLiteral(text, i, name)

----------------------------------------------------------------------------
(* Parse trees as the parser builds them: a Tree has the name of its rule  *)
(* and its children, a Token has the name of its terminal and the matched  *)
(* text.  NoneV is the placeholder of an optional [...] that is absent.     *)
(* Anonymous punctuation tokens are filtered out of the children.          *)

Tree(rule, children) == [rule |-> rule, children |-> children]

Token(name, text, i, e) == [type |-> name, value |-> SubSeq(text, i, e - 1)]

NoneV == [none |-> TRUE]

----------------------------------------------------------------------------
(* The grammar.  The body of a rule is a sequence of symbols:              *)
(*   T(n)      the named terminal n, kept as a child;                      *)
(*   L(c)      the literal "c", filtered out;                              *)
(*   N(r)      the rule r;                                                 *)
(*   Opt(s)    ( s )?                                                      *)
(*   Maybe(s)  [ s ], which leaves a None for each child of s when absent; *)
(*   Star(s)   ( s )*                                                      *)
(*   Plus(s)   ( s )+                                                      *)
(*   Alt(a)    one of the symbols of a.                                    *)

T(n) == [k |-> "T", n |-> n]

L(c) == [k |-> "L", c |-> c]

N(r) == [k |-> "N", r |-> r]

Opt(s) == [k |-> "Opt", s |-> s]

Maybe(s) == [k |-> "Maybe", s |-> s]

Star(s) == [k |-> "Star", s |-> s]

Plus(s) == [k |-> "Plus", s |-> s]

Alt(a) == [k |-> "Alt", a |-> a]

TRIVIA == Alt(<<T("SPACING"), T("ML_COMMENT"), T("SL_COMMENT")>>)

(* start: record_items | entity. *)
start_any_entity == <<Alt(<<N("record_items"), N("entity")>>)>>

start == <<N("record_items")>>

discriminator == <<T("CNAME"), Opt(<<N("filler1"), N("entity")>>)>>

list_closure == <<L("["), N("list_items"), L("]")>>

list_items ==
    <<Maybe(<<N("filler"), N("list_content")>>), N("filler"), Maybe(<<L(","), N("filler")>>)>>

list_content == <<N("entity"), Star(<<N("list_element")>>)>>

list_element == <<N("filler"), L(","), N("filler"), N("entity")>>

record_closure == <<L("{"), N("record_items"), L("}")>>

(* record_items with the leading filler outside the option:               *)
(* filler [record_content] filler ["," filler].                            *)
record_items_leading_filler_outside ==
    <<N("filler"), Maybe(<<N("record_content")>>), N("filler"),
      Maybe(<<L(","), N("filler")>>)>>

record_items ==
    <<Maybe(<<N("filler"), N("record_content")>>), N("filler"),
      Maybe(<<L(","), N("filler")>>)>>

record_content == <<N("kv"), Star(<<N("record_element")>>)>>

record_element == <<N("filler"), L(","), N("filler"), N("kv")>>

(* kv whose value is optional: CNAME filler ":" filler [entity]. *)
kv_optional_value ==
    <<T("CNAME"), N("filler"), L(":"), N("filler"), Maybe(<<N("entity")>>)>>

kv == <<T("CNAME"), N("filler"), L(":"), N("filler"), N("entity")>>

filler == <<Star(<<TRIVIA>>)>>

(* filler1 written with * in place of +. *)
filler1_may_be_empty == <<Star(<<TRIVIA>>)>>

filler1 == <<Plus(<<TRIVIA>>)>>

entity ==
    <<Alt(<<T("ESCAPED_STRING"), T("SIGNED_NUMBER"), N("record_closure"),
            N("list_closure"), N("discriminator")>>)>>

grammar(rule) ==
    CASE rule = "start"          -> start
      [] rule = "discriminator"  -> discriminator
      [] rule = "list_closure"   -> list_closure
      [] rule = "list_items"     -> list_items
      [] rule = "list_content"   -> list_content
      [] rule = "list_element"   -> list_element
      [] rule = "record_closure" -> record_closure
      [] rule = "record_items"   -> record_items
      [] rule = "record_content" -> record_content
      [] rule = "record_element" -> record_element
      [] rule = "kv"             -> kv
      [] rule = "filler"         -> filler
      [] rule = "filler1"        -> filler1
      [] rule = "entity"         -> entity

(* ?entity: a rule marked ? is replaced by its child when it has one. *)
Inlined == {"entity"}

----------------------------------------------------------------------------
(* The parser.  An item is one way the beginning of a rule derives the     *)
(* text from its start position up to position e, with the children t      *)
(* derived so far (for a whole rule, its one node), or, with ok = FALSE,   *)
(* a point e the parser reached where nothing it expected matched.         *)

Item(t, e) == [t |-> t, e |-> e, ok |-> TRUE]

Dead(i) == [t |-> <<>>, e |-> i, ok |-> FALSE]

PStart(i) == {Item(<<>>, i)}

(* The number of children a sequence of symbols leaves. *)
RuleSize(s) == Cardinality({ k \in DOMAIN s : s[k].k \in {"T", "N"} })

Nones(n) == [k \in 1..n |-> NoneV]

(* The node a rule leaves for its children t. *)
Wrap(rule, t) == IF rule \in Inlined /\ Len(t) = 1 THEN t ELSE <<Tree(rule, t)>>

(* The symbols a symbol stands for: itself, or the alternatives of an Alt. *)
Choices(sym) == IF sym.k = "Alt" THEN { sym.a[j] : j \in DOMAIN sym.a } ELSE {sym}

(* What an item meets at a symbol: the kind of the symbol, or, for an item *)
(* that has already failed, nothing.                                       *)
Kind(sym, p) == IF p.ok THEN sym.k ELSE "dead"

RECURSIVE Expand(_, _, _, _)

RECURSIVE Repeat(_, _, _)

(* The items that continue the items P through the first k symbols of s. *)
Expand(s, k, text, P) ==
    UNION { CASE Kind(sym, p) = "dead" -> {p}
              [] Kind(sym, p) = "T" ->
                   LET e == Match(sym.n, text, p.e)
                   IN  IF e = 0 THEN {Dead(p.e)}
                       ELSE {Item(Append(p.t, Token(sym.n, text, p.e, e)), e)}
              [] Kind(sym, p) = "L" ->
                   IF Match(sym.c, text, p.e) = 0 THEN {Dead(p.e)} ELSE {Item(p.t, p.e + 1)}
              [] Kind(sym, p) = "N" ->
                   { IF q.ok THEN Item(p.t \o Wrap(sym.r, q.t), q.e) ELSE q :
                     q \in Expand(grammar(sym.r), Len(grammar(sym.r)), text, PStart(p.e)) }
              [] Kind(sym, p) = "Opt" -> {p} \cup Expand(sym.s, Len(sym.s), text, {p})
              [] Kind(sym, p) = "Maybe" ->
                   Expand(sym.s, Len(sym.s), text, {p})
                       \cup {Item(p.t \o Nones(RuleSize(sym.s)), p.e)}
              [] Kind(sym, p) = "Star" -> Repeat(sym.s, text, {p})
              [] Kind(sym, p) = "Plus" ->
                   Repeat(sym.s, text, Expand(sym.s, Len(sym.s), text, {p})) :
            p \in IF k = 1 THEN P ELSE Expand(s, k - 1, text, P),
            sym \in Choices(s[k]) }

(* The items P and those that continue them through s any number of times. *)
Repeat(s, text, P) ==
    LET more == Expand(s, Len(s), text, { p \in P : p.ok })
    IN  IF \E q \in more : q.ok THEN P \cup Repeat(s, text, more) ELSE P \cup more

(* The items of the rule from position i. *)
Rule(rule, text, i) == Expand(<<N(rule)>>, 1, text, PStart(i))

(* parser.parse(text): the derivations of the whole text. *)
Derivations(text) ==
    { p.t[1] : p \in { q \in Rule("start", text, 1) : q.ok /\ q.e = Len(text) + 1 } }

(* The position at which the parser stops when the text has no derivation: *)
(* the furthest point it reached (Len(text) + 1 is the end of input).      *)
RECURSIVE SetMax(_)
SetMax(S) ==
    IF S = {} THEN 0
    ELSE LET x == CHOOSE y \in S : TRUE IN Max(x, SetMax(S \ {x}))

ErrorPosition(text) == SetMax({ p.e : p \in Rule("start", text, 1) })

----------------------------------------------------------------------------
(* The transformer: one callback per rule and per named terminal, applied  *)
(* bottom-up.  args is the list of the transformed children; Python's      *)
(* args[k] is args[k + 1] here.  A dataclass instance is a record whose    *)
(* cls field is the name of its class.  NoneT is None in a field whose     *)
(* other values are tuples.                                                *)

NoneT == <<>>

Spacing(text) == [cls |-> "Spacing", text |-> text]

SinglelineComment(text) == [cls |-> "SinglelineComment", text |-> text]

MultilineComment(text) == [cls |-> "MultilineComment", text |-> text]

Filler(data) == [cls |-> "Filler", data |-> data]

StringEntity(raw) == [cls |-> "StringEntity", raw |-> raw]

NumberEntity(raw) == [cls |-> "NumberEntity", raw |-> raw]

DiscriminatorEntity(name, data) ==
    [cls |-> "DiscriminatorEntity", name |-> name, data |-> data]

ListElement(precomma_filler, postcomma_filler, ent) ==
    [cls |-> "ListElement", precomma_filler |-> precomma_filler,
     postcomma_filler |-> postcomma_filler, entity |-> ent]

ListContent(first_element, rest_elements) ==
    [cls |-> "ListContent", first_element |-> first_element,
     rest_elements |-> rest_elements]

ListItems(content, fill, after_trailing) ==
    [cls |-> "ListItems", content |-> content, filler |-> fill,
     after_trailing |-> after_trailing]

ListClosure(items) == [cls |-> "ListClosure", items |-> items]

KVPair(key, precolumn_filler, postcolumn_filler, data) ==
    [cls |-> "KVPair", key |-> key, precolumn_filler |-> precolumn_filler,
     postcolumn_filler |-> postcolumn_filler, data |-> data]

RecordElement(precomma_filler, postcomma_filler, kv_pair) ==
    [cls |-> "RecordElement", precomma_filler |-> precomma_filler,
     postcomma_filler |-> postcomma_filler, kv_pair |-> kv_pair]

RecordContent(first_pair, rest_pairs) ==
    [cls |-> "RecordContent", first_pair |-> first_pair, rest_pairs |-> rest_pairs]

RecordItems(content, fill, after_trailing) ==
    [cls |-> "RecordItems", content |-> content, filler |-> fill,
     after_trailing |-> after_trailing]

RecordClosure(items) == [cls |-> "RecordClosure", items |-> items]

Transformer_start(args) == args[1]

Transformer_discriminator(args) ==
    IF Len(args) = 1
    THEN DiscriminatorEntity(args[1], NoneT)
    ELSE DiscriminatorEntity(args[1], <<args[2], args[3]>>)

Transformer_list_closure(args) == ListClosure(args[1])

Transformer_list_items(args) ==
    ListItems(IF args[2] # NoneV THEN <<args[1], args[2]>> ELSE NoneT,
              args[3], args[4])

Transformer_list_content(args) == ListContent(args[1], Tail(args))

Transformer_list_element(args) == ListElement(args[1], args[2], args[3])

Transformer_record_closure(args) == RecordClosure(args[1])

Transformer_record_items(args) ==
    RecordItems(IF args[2] # NoneV THEN <<args[1], args[2]>> ELSE NoneT,
                args[3], args[4])

Transformer_record_content(args) == RecordContent(args[1], Tail(args))

(* The two fillers of the element taken in the wrong order. *)
Transformer_record_element_swapped(args) == RecordElement(args[2], args[1], args[3])

Transformer_record_element(args) == RecordElement(args[1], args[2], args[3])

Transformer_kv(args) == KVPair(args[1], args[2], args[3], args[4])

Transformer_SPACING(tok) == Spacing(tok.value)

(* tok.value[2:] *)
Transformer_ML_COMMENT_keeps_close(tok) ==
    MultilineComment(SubSeq(tok.value, 3, Len(tok.value)))

(* tok.value[2:-2] *)
Transformer_ML_COMMENT(tok) ==
    MultilineComment(SubSeq(tok.value, 3, Len(tok.value) - 2))

(* tok.value[2:] *)
Transformer_SL_COMMENT(tok) ==
    SinglelineComment(SubSeq(tok.value, 3, Len(tok.value)))

Transformer_filler(args) == Filler(args)

Transformer_filler1(args) == Filler(args)

Transformer_CNAME(tok) == tok.value

(* tok.value[1:-1] *)
Transformer_ESCAPED_STRING(tok) ==
    StringEntity(SubSeq(tok.value, 2, Len(tok.value) - 1))

Transformer_SIGNED_NUMBER(tok) == NumberEntity(tok.value)

IsToken(node) == "type" \in DOMAIN node

RECURSIVE transform(_)
transform(node) ==
    IF node = NoneV THEN NoneV
    ELSE IF IsToken(node)
    THEN CASE node.type = "SPACING"        -> Transformer_SPACING(node)
           [] node.type = "ML_COMMENT"     -> Transformer_ML_COMMENT(node)
           [] node.type = "SL_COMMENT"     -> Transformer_SL_COMMENT(node)
           [] node.type = "CNAME"          -> Transformer_CNAME(node)
           [] node.type = "ESCAPED_STRING" -> Transformer_ESCAPED_STRING(node)
           [] node.type = "SIGNED_NUMBER"  -> Transformer_SIGNED_NUMBER(node)
    ELSE LET args == [k \in 1..Len(node.children) |-> transform(node.children[k])]
         IN  CASE node.rule = "start"          -> Transformer_start(args)
               [] node.rule = "discriminator"  -> Transformer_discriminator(args)
               [] node.rule = "list_closure"   -> Transformer_list_closure(args)
               [] node.rule = "list_items"     -> Transformer_list_items(args)
               [] node.rule = "list_content"   -> Transformer_list_content(args)
               [] node.rule = "list_element"   -> Transformer_list_element(args)
               [] node.rule = "record_closure" -> Transformer_record_closure(args)
               [] node.rule = "record_items"   -> Transformer_record_items(args)
               [] node.rule = "record_content" -> Transformer_record_content(args)
               [] node.rule = "record_element" -> Transformer_record_element(args)
               [] node.rule = "kv"             -> Transformer_kv(args)
               [] node.rule = "filler"         -> Transformer_filler(args)
               [] node.rule = "filler1"        -> Transformer_filler1(args)

----------------------------------------------------------------------------
(* The restore methods. *)

RECURSIVE restore(_)

RECURSIVE JoinRestore(_)
(* "".join(e.restore() for e in elems) *)
JoinRestore(elems) ==
    IF elems = <<>> THEN <<>> ELSE restore(Head(elems)) \o JoinRestore(Tail(elems))

Spacing_restore(self) == self.text

SinglelineComment_restore(self) == <<"/", "/">> \o self.text

MultilineComment_restore(self) == <<"/", "*">> \o self.text \o <<"*", "/">>

Filler_restore(self) == JoinRestore(self.data)

StringEntity_restore(self) == <<"\"">> \o self.raw \o <<"\"">>

NumberEntity_restore(self) == self.raw

DiscriminatorEntity_restore(self) ==
    IF self.data = NoneT
    THEN self.name
    ELSE self.name \o restore(self.data[1]) \o restore(self.data[2])

ListElement_restore(self) ==
    restore(self.precomma_filler) \o <<",">> \o restore(self.postcomma_filler)
        \o restore(self.entity)

ListContent_restore(self) ==
    restore(self.first_element) \o JoinRestore(self.rest_elements)

(* An instance of a dataclass is true in a condition, None is not. *)
ListItems_restore(self) ==
    (IF self.content # NoneT
     THEN restore(self.content[1]) \o restore(self.content[2])
     ELSE <<>>)
        \o restore(self.filler)
        \o (IF self.after_trailing # NoneV
            THEN <<",">> \o restore(self.after_trailing)
            ELSE <<>>)

ListClosure_restore(self) == <<"[">> \o restore(self.items) \o <<"]">>

KVPair_restore(self) ==
    self.key \o restore(self.precolumn_filler) \o <<":">>
        \o restore(self.postcolumn_filler) \o restore(self.data)

RecordElement_restore(self) ==
    restore(self.precomma_filler) \o <<",">> \o restore(self.postcomma_filler)
        \o restore(self.kv_pair)

RecordContent_restore(self) ==
    restore(self.first_pair) \o JoinRestore(self.rest_pairs)

(* The trailing comma emitted only when the filler after it is not empty. *)
RecordItems_restore_empty_is_absent(self) ==
    (IF self.content # NoneT
     THEN restore(self.content[1]) \o restore(self.content[2])
     ELSE <<>>)
        \o restore(self.filler)
        \o (IF self.after_trailing # NoneV /\ self.after_trailing.data # <<>>
            THEN <<",">> \o restore(self.after_trailing)
            ELSE <<>>)

(* The filler before the closing bracket emitted only with a content. *)
RecordItems_restore_filler_with_content(self) ==
    (IF self.content # NoneT
     THEN restore(self.content[1]) \o restore(self.content[2]) \o restore(self.filler)
     ELSE <<>>)
        \o (IF self.after_trailing # NoneV
            THEN <<",">> \o restore(self.after_trailing)
            ELSE <<>>)

RecordItems_restore(self) ==
    (IF self.content # NoneT
     THEN restore(self.content[1]) \o restore(self.content[2])
     ELSE <<>>)
        \o restore(self.filler)
        \o (IF self.after_trailing # NoneV
            THEN <<",">> \o restore(self.after_trailing)
            ELSE <<>>)

RecordClosure_restore(self) == <<"{">> \o restore(self.items) \o <<"}">>

restore(self) ==
    CASE self.cls = "Spacing"             -> Spacing_restore(self)
      [] self.cls = "SinglelineComment"   -> SinglelineComment_restore(self)
      [] self.cls = "MultilineComment"    -> MultilineComment_restore(self)
      [] self.cls = "Filler"              -> Filler_restore(self)
      [] self.cls = "StringEntity"        -> StringEntity_restore(self)
      [] self.cls = "NumberEntity"        -> NumberEntity_restore(self)
      [] self.cls = "DiscriminatorEntity" -> DiscriminatorEntity_restore(self)
      [] self.cls = "ListElement"         -> ListElement_restore(self)
      [] self.cls = "ListContent"         -> ListContent_restore(self)
      [] self.cls = "ListItems"           -> ListItems_restore(self)
      [] self.cls = "ListClosure"         -> ListClosure_restore(self)
      [] self.cls = "KVPair"              -> KVPair_restore(self)
      [] self.cls = "RecordElement"       -> RecordElement_restore(self)
      [] self.cls = "RecordContent"       -> RecordContent_restore(self)
      [] self.cls = "RecordItems"         -> RecordItems_restore(self)
      [] self.cls = "RecordClosure"       -> RecordClosure_restore(self)

----------------------------------------------------------------------------
(* Source texts *)

Alphabet == {"a", "1", " ", ":", ",", "[", "]", "{", "}", "/", "*", "\n", "\"", "-"}

MaxLen == 3

MaxTrivia == 1

(* Every text of at most MaxLen characters of the alphabet. *)
ShortTexts == UNION { [1..n -> Alphabet] : n \in 0..MaxLen }

(* Trivia that ends where it seems to end: a spacing character, a          *)
(* multi-line comment that holds a comma, and a single-line comment that   *)
(* holds a colon together with the newline that ends it.                   *)
TriviaAtoms == {<<" ">>, <<"/", "*", ",", "*", "/">>, <<"/", "/", ":", "\n">>}

RECURSIVE TriviaTexts(_)
(* The concatenations of at most n atoms. *)
TriviaTexts(n) ==
    IF n = 0 THEN {<<>>}
    ELSE TriviaTexts(n - 1)
             \cup { t \o a : t \in TriviaTexts(n - 1), a \in TriviaAtoms }

Triv == TriviaTexts(MaxTrivia)

RecordBodies == {<<>>, <<"a", ":", "1">>,
                 <<"a", ":", "1", ",", "b", ":", "t", " ", "2">>}

ListBodies == {<<>>, <<"1">>, <<"t", ",", "[", "2", "]">>}

(* The text of the items of a record or of a list: the content, the filler *)
(* after it and, with a trailing comma, the comma and the filler after it. *)
ItemsText(body, f1, comma, f2) ==
    body \o f1 \o (IF comma THEN <<",">> \o f2 ELSE <<>>)

InRecord(t) == <<"r", ":", "{">> \o t \o <<"}">>

InList(t) == <<"r", ":", "[">> \o t \o <<"]">>

AsValue(t) == <<"a", ":">> \o t

ItemsTexts(bodies) ==
    { ItemsText(body, f1, FALSE, <<>>) : body \in bodies, f1 \in Triv }
        \cup { ItemsText(body, f1, TRUE, f2) : body \in bodies, f1 \in Triv, f2 \in Triv }

TrailingInputs ==
    ItemsTexts(RecordBodies)
        \cup { InRecord(t) : t \in ItemsTexts(RecordBodies) }
        \cup { InList(t) : t \in ItemsTexts(ListBodies) }

(* Two items around a comma, and a key and a value around a colon. *)
RecordPair(f1, f2) == <<"a", ":", "1">> \o f1 \o <<",">> \o f2 \o <<"b", ":", "2">>

ListPair(f1, f2) == <<"1">> \o f1 \o <<",">> \o f2 \o <<"t">>

ColonPair(f1, f2) == <<"k">> \o f1 \o <<":">> \o f2 \o <<"1">>

SeparatorInputs ==
    UNION { {RecordPair(f1, f2), InRecord(RecordPair(f1, f2)),
             InList(ListPair(f1, f2)), ColonPair(f1, f2),
             InRecord(ColonPair(f1, f2))} : f1 \in Triv, f2 \in Triv }

(* Leading and trailing filler around the content of a container. *)
LeadingInputs ==
    UNION { {f0 \o <<"a", ":", "1">> \o f1, InRecord(f0 \o <<"a", ":", "1">> \o f1),
             InList(f0 \o <<"1">> \o f1)} : f0 \in Triv, f1 \in Triv }

(* A name followed by trivia and a value. *)
PayloadValues == {<<"1">>, <<"\"", "s", "\"">>, <<"[", "1", "]">>, <<"{", "}">>,
                  <<"-", "1">>, <<"u">>}

PayloadInputs ==
    UNION { {AsValue(<<"t">> \o f \o v), InList(<<"t">> \o f \o v)} :
            f \in Triv, v \in PayloadValues }

T_manual100 ==
    <<"a", ":", "m", "a", "n", "u", "a", "l", "1", "0", "0">>

T_manual_100 ==
    <<"a", ":", "m", "a", "n", "u", "a", "l", " ", "1", "0", "0">>

T_manual ==
    <<"a", ":", "m", "a", "n", "u", "a", "l">>

T_manual_comma_100 ==
    <<"a", ":", "[", "m", "a", "n", "u", "a", "l", ",", "1", "0", "0", "]">>

T_trailing ==
    <<"r", ":", "{", " ", "a", ":", " ", "1", ",", " ", "}">>

T_no_trailing ==
    <<"r", ":", "{", " ", "a", ":", " ", "1", " ", "}">>

T_comment_after_comma ==
    <<"r", ":", "{", " ", "a", ":", " ", "1", ",", " ", "/", "*", " ", "c", " ", "*", "/", " ", "b", ":", " ", "2", " ", "}">>

T_comment_before_comma ==
    <<"r", ":", "{", " ", "a", ":", " ", "1", " ", "/", "*", " ", "c", " ", "*", "/", ",", " ", "b", ":", " ", "2", " ", "}">>

T_empty_record ==
    <<"{", "}">>

T_empty_list ==
    <<"[", "]">>

T_only_comment ==
    <<"{", " ", "/", "*", " ", "o", "n", "l", "y", " ", "a", " ", "c", "o", "m", "m", "e", "n", "t", " ", "*", "/", " ", "}">>

T_missing_value ==
    <<"{", " ", "a", ":", " ", "}">>

T_tag_string ==
    <<"a", ":", "t", "a", "g", "\"", "s", "\"">>

T_tag_list ==
    <<"a", ":", "t", "a", "g", "[", "1", "]">>

T_tag_record ==
    <<"a", ":", "t", "a", "g", "{", "}">>

T_tag_number ==
    <<"a", ":", "t", "a", "g", "-", "1">>

T_root_record ==
    <<"{", "a", ":", "1", "}">>

T_root_list ==
    <<"[", "1", "]">>

T_root_string ==
    <<"\"", "s", "\"">>

T_root_number ==
    <<"1", "0", "0">>

T_root_discriminator ==
    <<"m", "a", "n", "u", "a", "l">>

T_root_payload ==
    <<"m", "a", "n", "u", "a", "l", " ", "1", "0", "0">>

T_everything ==
    <<" ", "a", " ", ":", " ", "1", " ", ",", " ", "/", "/", "c", "\n", " ", "b", " ", ":", " ", "[", " ", "\"", "s", ",", "]", "\"", " ", ",", " ", "t", "\t", "-", "1", ".", "5", "e", "3", " ", ",", " ", "]", " ", "/", "*", "c", "*", "/", " ", ",", " ", "\r", "\n">>

T_unclosed_comment ==
    <<"a", ":", "1", " ", "/", "*", " ", "c">>

T_nested_close ==
    <<"a", ":", "1", "/", "*", " ", "c", " ", "*", "/", " ", "*", "/">>

T_structural_comment ==
    <<"r", ":", "{", " ", "a", ":", " ", "1", " ", "/", "*", " ", ",", ":", "]", "}", " ", "*", "/", " ", "}">>

Samples ==
    {T_manual100,
     T_manual_100,
     T_manual,
     T_manual_comma_100,
     T_trailing,
     T_no_trailing,
     T_comment_after_comma,
     T_comment_before_comma,
     T_empty_record,
     T_empty_list,
     T_only_comment,
     T_missing_value,
     T_tag_string,
     T_tag_list,
     T_tag_record,
     T_tag_number,
     T_root_record,
     T_root_list,
     T_root_string,
     T_root_number,
     T_root_discriminator,
     T_root_payload,
     T_everything,
     T_unclosed_comment,
     T_nested_close,
     T_structural_comment}

Inputs ==
    ShortTexts \cup { AsValue(t) : t \in ShortTexts }
        \cup TrailingInputs \cup SeparatorInputs \cup LeadingInputs
        \cup PayloadInputs \cup Samples \cup { AsValue(t) : t \in Samples }

----------------------------------------------------------------------------
(* The verification utility: main() of src/test.py around parse_configurik *)

NotExited == -1

Init ==
    /\ input_data \in Inputs
    /\ pc = "parse"
    /\ forest = {}
    /\ errpos = 0
    /\ ast = NoneV
    /\ restored = <<>>
    /\ exit_code = NotExited

(* tree = parser.parse(text), when the text has a derivation *)
Parse ==
    /\ pc = "parse"
    /\ Derivations(input_data) # {}
    /\ forest' = Derivations(input_data)
    /\ pc' = "transform"
    /\ UNCHANGED <<input_data, errpos, ast, restored, exit_code>>

(* parser.parse(text) raises; main reports the position and exits 1 *)
ParseError ==
    /\ pc = "parse"
    /\ Derivations(input_data) = {}
    /\ errpos' = ErrorPosition(input_data)
    /\ exit_code' = 1
    /\ pc' = "exit"
    /\ UNCHANGED <<input_data, forest, ast, restored>>

(* return transformer.transform(tree); the parser hands over one tree *)
Transform ==
    /\ pc = "transform"
    /\ \E tree \in forest : ast' = transform(tree)
    /\ pc' = "restore"
    /\ UNCHANGED <<input_data, forest, errpos, restored, exit_code>>

(* restored = ast.restore(); exit 2 on a mismatch (the returned tree is    *)
(* a RecordItems, which has no attribute "pretty")                          *)
Verify ==
    /\ pc = "restore"
    /\ restored' = restore(ast)
    /\ exit_code' = IF restored' = input_data THEN 0 ELSE 2
    /\ pc' = "exit"
    /\ UNCHANGED <<input_data, forest, errpos, ast>>

Next == Parse \/ ParseError \/ Transform \/ Verify

Spec == Init /\ [][Next]_vars

----------------------------------------------------------------------------
(* Vocabulary of the properties *)

Done == pc = "exit"

Accepted == pc = "exit" /\ exit_code # 1

Rejected == pc = "exit" /\ exit_code = 1

IsPrefix(u, text) == Len(u) <= Len(text) /\ SubSeq(text, 1, Len(u)) = u

IsSuffix(u, text) ==
    Len(u) <= Len(text) /\ SubSeq(text, Len(text) - Len(u) + 1, Len(text)) = u

RECURSIVE TriviaEnd(_, _)
(* The end of the run of trivia lexemes that starts at position i. *)
TriviaEnd(text, i) ==
    LET e == Max(MatchSPACING(text, i),
                 Max(MatchML_COMMENT(text, i), MatchSL_COMMENT(text, i)))
    IN  IF e = 0 THEN i ELSE TriviaEnd(text, e)

Range(f) == { f[k] : k \in DOMAIN f }

(* The nodes directly below a node of the returned tree. *)
ChildrenOf(n) ==
    CASE n.cls = "Filler"              -> Range(n.data)
      [] n.cls = "DiscriminatorEntity" -> Range(n.data)
      [] n.cls = "ListElement"         -> {n.precomma_filler, n.postcomma_filler, n.entity}
      [] n.cls = "ListContent"         -> {n.first_element} \cup Range(n.rest_elements)
      [] n.cls \in {"ListItems", "RecordItems"} ->
             Range(n.content) \cup {n.filler}
                 \cup (IF n.after_trailing = NoneV THEN {} ELSE {n.after_trailing})
      [] n.cls \in {"ListClosure", "RecordClosure"} -> {n.items}
      [] n.cls = "KVPair"              -> {n.precolumn_filler, n.postcolumn_filler, n.data}
      [] n.cls = "RecordElement"       -> {n.precomma_filler, n.postcomma_filler, n.kv_pair}
      [] n.cls = "RecordContent"       -> {n.first_pair} \cup Range(n.rest_pairs)
      [] OTHER                         -> {}

RECURSIVE Nodes(_)
Nodes(n) == {n} \cup UNION { Nodes(c) : c \in ChildrenOf(n) }

NodesOfClass(c) == IF ast = NoneV THEN {} ELSE { n \in Nodes(ast) : n.cls = c }

(* The value of the first key of the returned root. *)
FirstValue == ast.content[2].first_pair.data

(* The text between the brackets when the input is r:{...} or r:[...]. *)
OpensWith(open, close) ==
    IsPrefix(<<"r", ":", open>>, input_data) /\ IsSuffix(<<close>>, input_data)
        /\ Len(input_data) >= 4

Inner == SubSeq(input_data, 4, Len(input_data) - 1)

----------------------------------------------------------------------------
(* C1: whenever parse_configurik accepts the input, restore() of the       *)
(* returned tree is exactly the input, so the utility never exits with     *)
(* status 2 and reports the two texts identical.                           *)
C1_RoundTrip ==
    /\ exit_code # 2
    /\ Accepted => restored = input_data /\ exit_code = 0

C1_Witness ==
    Accepted /\ input_data = T_everything /\ restored = T_everything

(* C2: the root is an unbraced record body: every accepted input yields    *)
(* the record-items node, and an input that is, as a whole, one entity (a  *)
(* braced record, a list, a string, a number, a discriminator) is          *)
(* rejected.                                                               *)
IsEntityText(text) == \E p \in Rule("entity", text, 1) : p.ok /\ p.e = Len(text) + 1

C2_RootIsRecordItems ==
    /\ ast # NoneV => ast.cls = "RecordItems"
    /\ Done /\ IsEntityText(input_data) => exit_code = 1 /\ ast = NoneV

C2_Witness ==
    Rejected /\ input_data = T_root_record /\ IsEntityText(input_data)

(* C3: as a value, manual100 is one discriminator without payload,         *)
(* manual 100 is the discriminator manual with the payload 100 and the     *)
(* space as its separator, manual at the end of the input has no payload,  *)
(* and manual,100 in a list is two elements.                               *)
Manual == <<"m", "a", "n", "u", "a", "l">>

Hundred == NumberEntity(<<"1", "0", "0">>)

C3_Disambiguation ==
    Done =>
      /\ input_data = T_manual100 =>
           /\ exit_code = 0
           /\ FirstValue = DiscriminatorEntity(Manual \o <<"1", "0", "0">>, NoneT)
      /\ input_data = T_manual_100 =>
           /\ exit_code = 0
           /\ FirstValue =
                DiscriminatorEntity(Manual, <<Filler(<<Spacing(<<" ">>)>>), Hundred>>)
      /\ input_data = T_manual =>
           /\ exit_code = 0
           /\ FirstValue = DiscriminatorEntity(Manual, NoneT)
      /\ input_data = T_manual_comma_100 =>
           /\ exit_code = 0
           /\ FirstValue.cls = "ListClosure"
           /\ FirstValue.items.content[2] =
                ListContent(DiscriminatorEntity(Manual, NoneT),
                            <<ListElement(Filler(<<>>), Filler(<<>>), Hundred)>>)

C3_Witness ==
    /\ Accepted /\ input_data = T_manual_100
    /\ FirstValue.cls = "DiscriminatorEntity" /\ FirstValue.data # NoneT

(* C4: the items of a record or of a list have after_trailing None exactly *)
(* when the source has no trailing comma and a Filler, possibly empty,     *)
(* exactly when it has one, and restore emits the comma exactly then.      *)
(* The source is recognised by its lexemes: a content, a run of trivia     *)
(* and, or not, a comma and a run of trivia up to the end.                 *)
TrailingShape(X, body) ==
    IF ~IsPrefix(body, X) THEN "other"
    ELSE LET j == TriviaEnd(X, Len(body) + 1)
         IN  IF j = Len(X) + 1 THEN "plain"
             ELSE IF At(X, j) = "," /\ TriviaEnd(X, j + 1) = Len(X) + 1 THEN "comma"
             ELSE "other"

TrailingKept(X, body, items) ==
    LET j == TriviaEnd(X, Len(body) + 1)
    IN  /\ TrailingShape(X, body) = "plain" =>
              /\ items.after_trailing = NoneV
              /\ restore(items) = X
        /\ TrailingShape(X, body) = "comma" =>
              /\ items.after_trailing # NoneV
              /\ items.after_trailing.cls = "Filler"
              /\ restore(items.after_trailing) = SubSeq(X, j + 1, Len(X))
              /\ restore(items.filler) = SubSeq(X, Len(body) + 1, j - 1)
              /\ restore(items) = X

C4_TrailingComma ==
    Done =>
      /\ \A body \in RecordBodies :
           TrailingShape(input_data, body) # "other" =>
               exit_code = 0 /\ TrailingKept(input_data, body, ast)
      /\ OpensWith("{", "}") =>
           \A body \in RecordBodies :
             TrailingShape(Inner, body) # "other" =>
                 /\ exit_code = 0
                 /\ FirstValue.cls = "RecordClosure"
                 /\ TrailingKept(Inner, body, FirstValue.items)
      /\ OpensWith("[", "]") =>
           \A body \in ListBodies :
             TrailingShape(Inner, body) # "other" =>
                 /\ exit_code = 0
                 /\ FirstValue.cls = "ListClosure"
                 /\ TrailingKept(Inner, body, FirstValue.items)
      /\ input_data = T_trailing =>
           exit_code = 0 /\ FirstValue.items.after_trailing = Filler(<<Spacing(<<" ">>)>>)
      /\ input_data = T_no_trailing =>
           exit_code = 0 /\ FirstValue.items.after_trailing = NoneV

C4_Witness ==
    /\ Accepted /\ OpensWith("{", "}")
    /\ TrailingShape(Inner, <<"a", ":", "1">>) = "comma"
    /\ FirstValue.items.after_trailing = Filler(<<>>)

(* C5: trivia between an item and the comma after it is in the pre-comma  *)
(* filler of the next element, trivia between the comma and the next item  *)
(* in its post-comma filler, and likewise around the colon of a pair; a    *)
(* comment moved across the comma changes the slot that holds it.          *)
(* The source is recognised by its lexemes: left, a run of trivia, the     *)
(* separator, a run of trivia, right.                                      *)
SplitsAt(X, left, sep, right) ==
    /\ IsPrefix(left, X)
    /\ LET j == TriviaEnd(X, Len(left) + 1)
       IN  /\ At(X, j) = sep
           /\ SubSeq(X, TriviaEnd(X, j + 1), Len(X)) = right

Before(X, left) == SubSeq(X, Len(left) + 1, TriviaEnd(X, Len(left) + 1) - 1)

After(X, left) ==
    LET j == TriviaEnd(X, Len(left) + 1)
    IN  SubSeq(X, j + 1, TriviaEnd(X, j + 1) - 1)

CommentC == MultilineComment(<<" ", "c", " ">>)

C5_SeparatorSlots ==
    Done =>
      /\ SplitsAt(input_data, <<"a", ":", "1">>, ",", <<"b", ":", "2">>) =>
           /\ exit_code = 0
           /\ Len(ast.content[2].rest_pairs) = 1
           /\ restore(ast.content[2].rest_pairs[1].precomma_filler)
                = Before(input_data, <<"a", ":", "1">>)
           /\ restore(ast.content[2].rest_pairs[1].postcomma_filler)
                = After(input_data, <<"a", ":", "1">>)
      /\ OpensWith("{", "}") /\ SplitsAt(Inner, <<"a", ":", "1">>, ",", <<"b", ":", "2">>) =>
           /\ exit_code = 0
           /\ restore(FirstValue.items.content[2].rest_pairs[1].precomma_filler)
                = Before(Inner, <<"a", ":", "1">>)
           /\ restore(FirstValue.items.content[2].rest_pairs[1].postcomma_filler)
                = After(Inner, <<"a", ":", "1">>)
      /\ OpensWith("[", "]") /\ SplitsAt(Inner, <<"1">>, ",", <<"t">>) =>
           /\ exit_code = 0
           /\ restore(FirstValue.items.content[2].rest_elements[1].precomma_filler)
                = Before(Inner, <<"1">>)
           /\ restore(FirstValue.items.content[2].rest_elements[1].postcomma_filler)
                = After(Inner, <<"1">>)
      /\ SplitsAt(input_data, <<"k">>, ":", <<"1">>) =>
           /\ exit_code = 0
           /\ restore(ast.content[2].first_pair.precolumn_filler) = Before(input_data, <<"k">>)
           /\ restore(ast.content[2].first_pair.postcolumn_filler) = After(input_data, <<"k">>)
      /\ input_data = T_comment_after_comma =>
           /\ exit_code = 0
           /\ FirstValue.items.content[2].rest_pairs[1].precomma_filler = Filler(<<>>)
           /\ FirstValue.items.content[2].rest_pairs[1].postcomma_filler
                = Filler(<<Spacing(<<" ">>), CommentC, Spacing(<<" ">>)>>)
      /\ input_data = T_comment_before_comma =>
           /\ exit_code = 0
           /\ FirstValue.items.content[2].rest_pairs[1].precomma_filler
                = Filler(<<Spacing(<<" ">>), CommentC>>)
           /\ FirstValue.items.content[2].rest_pairs[1].postcomma_filler
                = Filler(<<Spacing(<<" ">>)>>)

C5_Witness ==
    /\ Accepted /\ input_data = T_comment_after_comma
    /\ CommentC \in Range(FirstValue.items.content[2].rest_pairs[1].postcomma_filler.data)

(* C6 as stated: {} and [] are parsed and restored to the same text, and   *)
(* { /* only a comment */ } is parsed with the comment in the leading      *)
(* filler of the items of the record, the one paired with the content.     *)
OnlyAComment ==
    MultilineComment(<<" ", "o", "n", "l", "y", " ", "a", " ", "c", "o", "m", "m",
                       "e", "n", "t", " ">>)

C6_AsStated ==
    Done =>
      /\ input_data \in {T_empty_record, T_empty_list, T_only_comment} =>
           exit_code = 0 /\ restored = input_data
      /\ input_data = AsValue(T_only_comment) =>
           /\ exit_code = 0 /\ restored = input_data
           /\ FirstValue.items.content # NoneT
           /\ OnlyAComment \in Range(FirstValue.items.content[1].data)

(* C6 amended: as the value of a key, {} and [] are parsed and restored to *)
(* the same text, and { /* only a comment */ } as well, its items having   *)
(* no (leading filler, content) pair and the comment in their filler       *)
(* field; so has every container that holds only trivia.  As whole inputs  *)
(* the three texts are rejected at their first character.                  *)
C6_EmptyContainers ==
    Done =>
      /\ input_data = AsValue(T_empty_record) =>
           /\ exit_code = 0 /\ restored = input_data
           /\ FirstValue = RecordClosure(RecordItems(NoneT, Filler(<<>>), NoneV))
      /\ input_data = AsValue(T_empty_list) =>
           /\ exit_code = 0 /\ restored = input_data
           /\ FirstValue = ListClosure(ListItems(NoneT, Filler(<<>>), NoneV))
      /\ input_data = AsValue(T_only_comment) =>
           /\ exit_code = 0 /\ restored = input_data
           /\ FirstValue =
                RecordClosure(RecordItems(NoneT,
                    Filler(<<Spacing(<<" ">>), OnlyAComment, Spacing(<<" ">>)>>), NoneV))
      /\ (OpensWith("{", "}") \/ OpensWith("[", "]"))
            /\ TriviaEnd(Inner, 1) = Len(Inner) + 1 =>
           /\ exit_code = 0 /\ restored = input_data
           /\ FirstValue.items.content = NoneT
           /\ FirstValue.items.after_trailing = NoneV
           /\ restore(FirstValue.items.filler) = Inner
      /\ input_data \in {T_empty_record, T_empty_list, T_only_comment} =>
           exit_code = 1 /\ errpos = 1

C6_Witness ==
    /\ Accepted /\ input_data = AsValue(T_only_comment)
    /\ FirstValue.items.content = NoneT
    /\ OnlyAComment \in Range(FirstValue.items.filler.data)

(* C7 as stated: the input { a: } is rejected with the error reported at   *)
(* its } (the sixth character), and no tree is returned.                   *)
C7_AsStated ==
    Done /\ input_data = T_missing_value =>
        exit_code = 1 /\ ast = NoneV /\ errpos = 6

(* C7 amended: the input { a: } is rejected with the error reported at its *)
(* first character, the {, because the root is an unbraced record body;    *)
(* as the value of a key, x:{ a: }, it is rejected at the }.  Every        *)
(* rejected input is rejected at the first point where nothing the parser  *)
(* expects matches (the parser gets through the text before it), and no    *)
(* tree, partial or otherwise, is returned.                                *)
C7_ErrorLocality ==
    /\ Done /\ input_data = T_missing_value =>
         exit_code = 1 /\ errpos = 1 /\ At(input_data, errpos) = "{"
    /\ Done /\ input_data = AsValue(T_missing_value) =>
         exit_code = 1 /\ errpos = 8 /\ At(input_data, errpos) = "}"
    /\ input_data \in {T_missing_value, AsValue(T_missing_value)} =>
         forest = {} /\ ast = NoneV
    /\ Rejected =>
         /\ ast = NoneV /\ forest = {} /\ restored = <<>>
         /\ errpos \in 1..(Len(input_data) + 1)
         /\ ErrorPosition(SubSeq(input_data, 1, errpos - 1)) = errpos
    /\ Done /\ exit_code # 1 => errpos = 0

C7_Witness ==
    Rejected /\ input_data = AsValue(T_missing_value) /\ At(input_data, errpos) = "}"

(* C8: every discriminator of a returned tree that has a payload has a     *)
(* separator filler of at least one trivia element, so a name immediately  *)
(* followed by a value is never a discriminator with that payload.         *)
C8_MandatorySeparator ==
    /\ \A d \in NodesOfClass("DiscriminatorEntity") :
         d.data # NoneT => d.data[1].cls = "Filler" /\ Len(d.data[1].data) >= 1
    /\ Done /\ input_data \in {T_tag_string, T_tag_list, T_tag_record, T_tag_number} =>
         exit_code = 1

C8_Witness ==
    /\ Accepted
    /\ \E d \in NodesOfClass("DiscriminatorEntity") :
         d.data # NoneT /\ d.data[2].cls = "StringEntity"

(* C9 as stated: the restored text of a Filler of a returned tree has no   *)
(* structural character.                                                   *)
C9_AsStated ==
    \A f \in NodesOfClass("Filler") : Range(restore(f)) \cap STRUCTURAL = {}

(* C9 amended: every element of a Filler of a returned tree is a spacing   *)
(* or a comment, and every Spacing is a non-empty text of spaces, tabs,    *)
(* carriage returns and newlines, so a Filler holds a structural character *)
(* only inside the body of a comment, where any character may be.          *)
C9_FillerContent ==
    \A f \in NodesOfClass("Filler") :
      \A x \in Range(f.data) :
        /\ x.cls \in {"Spacing", "SinglelineComment", "MultilineComment"}
        /\ x.cls = "Spacing" => x.text # <<>> /\ Range(x.text) \subseteq WS_CHARS

C9_Witness ==
    /\ Accepted
    /\ \E f \in NodesOfClass("Filler") :
         /\ \E x \in Range(f.data) : x.cls = "Spacing"
         /\ \E x \in Range(f.data) :
              x.cls = "MultilineComment" /\ Range(x.text) \cap STRUCTURAL # {}

(* C10: an accepted text has exactly one parse tree; in it every filler   *)
(* slot holds a whole maximal run of trivia of the source (the run ends    *)
(* where the slot ends and no other slot touches it), and no Filler has    *)
(* two adjacent Spacing elements.                                          *)
(* Pieces(n) lists, in source order, the texts a tree is made of: the      *)
(* text of each filler slot, marked, and the text of each name, number,    *)
(* string and punctuation mark.                                            *)
Piece(isFiller, text) == [filler |-> isFiller, text |-> text]

RECURSIVE Pieces(_)

RECURSIVE JoinPieces(_)
JoinPieces(elems) ==
    IF elems = <<>> THEN <<>> ELSE Pieces(Head(elems)) \o JoinPieces(Tail(elems))

ItemsPieces(n) ==
    (IF n.content # NoneT THEN Pieces(n.content[1]) \o Pieces(n.content[2]) ELSE <<>>)
        \o Pieces(n.filler)
        \o (IF n.after_trailing # NoneV
            THEN <<Piece(FALSE, <<",">>)>> \o Pieces(n.after_trailing)
            ELSE <<>>)

Pieces(n) ==
    CASE n.cls = "Filler" -> <<Piece(TRUE, restore(n))>>
      [] n.cls \in {"StringEntity", "NumberEntity"} -> <<Piece(FALSE, restore(n))>>
      [] n.cls = "DiscriminatorEntity" ->
             <<Piece(FALSE, n.name)>> \o JoinPieces(n.data)
      [] n.cls = "ListElement" ->
             Pieces(n.precomma_filler) \o <<Piece(FALSE, <<",">>)>>
                 \o Pieces(n.postcomma_filler) \o Pieces(n.entity)
      [] n.cls = "ListContent" -> Pieces(n.first_element) \o JoinPieces(n.rest_elements)
      [] n.cls \in {"ListItems", "RecordItems"} -> ItemsPieces(n)
      [] n.cls = "ListClosure" ->
             <<Piece(FALSE, <<"[">>)>> \o Pieces(n.items) \o <<Piece(FALSE, <<"]">>)>>
      [] n.cls = "RecordClosure" ->
             <<Piece(FALSE, <<"{">>)>> \o Pieces(n.items) \o <<Piece(FALSE, <<"}">>)>>
      [] n.cls = "KVPair" ->
             <<Piece(FALSE, n.key)>> \o Pieces(n.precolumn_filler)
                 \o <<Piece(FALSE, <<":">>)>> \o Pieces(n.postcolumn_filler)
                 \o Pieces(n.data)
      [] n.cls = "RecordElement" ->
             Pieces(n.precomma_filler) \o <<Piece(FALSE, <<",">>)>>
                 \o Pieces(n.postcomma_filler) \o Pieces(n.kv_pair)
      [] n.cls = "RecordContent" -> Pieces(n.first_pair) \o JoinPieces(n.rest_pairs)

RECURSIVE PieceStart(_, _)
(* The position in the source of the first character of piece k. *)
PieceStart(ps, k) == IF k = 1 THEN 1 ELSE PieceStart(ps, k - 1) + Len(ps[k - 1].text)

WholeRuns(ps) ==
    \A k \in 1..Len(ps) :
      ps[k].filler =>
        /\ TriviaEnd(input_data, PieceStart(ps, k)) = PieceStart(ps, k) + Len(ps[k].text)
        /\ k > 1 => ~ps[k - 1].filler

NoAdjacentSpacing(f) ==
    \A k \in 1..(Len(f.data) - 1) :
      ~(f.data[k].cls = "Spacing" /\ f.data[k + 1].cls = "Spacing")

C10_CanonicalSplit ==
    /\ Cardinality(forest) <= 1
    /\ Accepted => WholeRuns(Pieces(ast))
    /\ \A f \in NodesOfClass("Filler") : NoAdjacentSpacing(f)

C10_Witness ==
    /\ Accepted /\ Cardinality(forest) = 1
    /\ \E f \in NodesOfClass("Filler") :
         /\ Len(f.data) >= 3
         /\ \E k \in 1..Len(f.data) : f.data[k].cls = "Spacing" /\ Len(f.data[k].text) >= 2

====
